---- MODULE Spec2Model ----
(***************************************************************************)
(* A model of the Forge middleware (src/src/core.rs, src/src/middleware.rs,*)
(* src/src/evm.rs): a Middleware that answers requests from a local        *)
(* execution engine behind a tokio RwLock, or delegates them to an inner   *)
(* provider which may be the dummy Provider<NoClient>.                     *)
(*                                                                         *)
(* Every request is a process that moves through the await points of its   *)
(* handler.  A step that takes a temporary lock guard (acquire, use, drop  *)
(* within one statement) is one atomic action; the guard that get_block    *)
(* keeps across an await is held across steps.                             *)
(***************************************************************************)
EXTENDS Integers, Sequences, FiniteSets, TLC

\* ------------------------------------------------------------- bounds
NumProcs == 2      \* concurrent callers of one Forge
MaxOps   == 2      \* requests issued in one behaviour
MaxHead  == 2      \* largest head block counter of the engine
InitBal  == 2      \* balance of the funded account at construction

\* -------------------------------------------------------------- values
None == <<>>
Some(v) == <<v>>
IsSome(o) == o # <<>>
Unwrap(o) == o[1]

Procs == 1..NumProcs

\* "A" is a funded account, "D" is the address of DEFAULT_SENDER, "C" is the
\* address the engine gives to a deployed contract.
DEFAULT_SENDER == "D"
Addrs == {"A", "D", "C"}

DefaultHash == 0

\* BlockId: Hash(h), Number(Number(n)), Number(Latest | Pending | Earliest)
BlockIds ==
    [k : {"hash"}, v : 0..(MaxHead + 1)]
      \cup [k : {"num"}, v : 0..MaxHead]
      \cup [k : {"latest", "pending", "earliest"}, v : {0}]

AddrDest(a) == [k |-> "addr", a |-> a]
NameDest(n) == [k |-> "name", a |-> n]

\* ------------------------------------------------- the execution engine
\* The engine is its state v (balances, code, nonce: what Evm::state clones
\* and Evm::reset puts back) and its block environment e, which no request
\* changes.
\* VmShow, as implemented for the sputnik Executor.
gas_price(e) == e.gasPrice
block_number(e) == e.number
chain_id(e) == e.number
balance(v, a) == v.bal[a]
gas_limit(e) == e.gasLimit
\* The engine has hashes only for blocks it produced; for any other number it
\* gives the default hash.
block_hash(e, n) == IF e.hashed /\ n >= 0 /\ n < e.number THEN n + 1 ELSE DefaultHash

\* Evm::is_success: the engine's predicate over its exit reason.
is_success(exit) == exit = "Succeed"

\* Evm::call_raw(from, to, data, value, is_static = false): the engine's answer
\* to a call, and the engine state after it.  The engine rejects malformed
\* input with an error and leaves its state alone; a call that cannot pay its
\* value reverts.
call_raw(v, from, to, data, val) ==
    IF data = "fault"
    THEN [err |-> TRUE, vm |-> v, out |-> None, exit |-> "Fatal", gas |-> 0]
    ELSE IF v.bal[from] >= val
    THEN [err  |-> FALSE,
          vm   |-> [v EXCEPT !.bal = [a \in Addrs |->
                       IF from = to THEN v.bal[a]
                       ELSE IF a = from THEN v.bal[a] - val
                       ELSE IF a = to THEN v.bal[a] + val
                       ELSE v.bal[a]],
                             !.nonce = v.nonce + 1],
          out  |-> Some(<<"ret", v.code[to]>>),
          exit |-> "Succeed",
          gas  |-> 2 + val]
    ELSE [err |-> FALSE, vm |-> v, out |-> Some(<<"ret", "">>),
          exit |-> "Revert", gas |-> 1]

\* Evm::deploy(from, code, value): the created address, and the engine state
\* after the deployment.
deploy(v, from, data, val) ==
    IF data = "fault"
    THEN [err |-> TRUE, vm |-> v, out |-> None, exit |-> "Fatal", gas |-> 0]
    ELSE IF v.bal[from] >= val /\ v.code["C"] = ""
    THEN [err  |-> FALSE,
          vm   |-> [v EXCEPT !.bal = [a \in Addrs |->
                       IF from = "C" THEN v.bal[a]
                       ELSE IF a = from THEN v.bal[a] - val
                       ELSE IF a = "C" THEN v.bal[a] + val
                       ELSE v.bal[a]],
                             !.code = [v.code EXCEPT !["C"] = data],
                             !.nonce = v.nonce + 1],
          out  |-> Some("C"),
          exit |-> "Succeed",
          gas  |-> 3 + val]
    ELSE [err |-> FALSE, vm |-> v, out |-> Some("C"),
          exit |-> "Revert", gas |-> 1]

\* ------------------------------------------------- the inner provider
\* Inner<M>: Not(Provider<NoClient>) or Use(provider).  A provider in use
\* either answers ("Up") or fails every request ("Down").  Its sender is the
\* address it was configured with, if any.
InnerModes == {"Not", "Up", "Down"}

\* What the provider in use answers.
RemoteResolve(name) == "D"
RemoteCode(a) == "remote_code"
RemoteBalance(a) == 7
RemoteGasPrice == 9
RemoteBlock(id) == [src |-> "remote", id |-> id]
RemoteAccessList == [list |-> "remote_al", gas_used |-> 2]
RemoteFees == <<8, 4>>

\* Delegate with a dummy provider whose request returns an error instead of
\* panicking.
DelegateRecoverable(mode, answer) ==
    IF mode = "Up" THEN [kind |-> "ok", val |-> Some(answer)]
    ELSE [kind |-> "err", val |-> Some("MiddlewareError")]

\* NoClient::request is unreachable!(): a request through the dummy provider
\* panics.  A provider in use returns its answer or its error, which FromErr
\* turns into ForgeError::MiddlewareError.
Delegate(mode, answer) ==
    CASE mode = "Not"  -> [kind |-> "panic", val |-> None]
      [] mode = "Down" -> [kind |-> "err", val |-> Some("MiddlewareError")]
      [] OTHER         -> [kind |-> "ok", val |-> Some(answer)]

\* Middleware::default_sender, as Provider answers it: no request is made.
default_sender(inn) == inn.sender

\* --------------------------------------------------------- core.rs
\* Forge::is_latest: "local", "remote", or "panic" when the subtraction from
\* the head counter overflows (U256 and U64 subtraction panic on overflow).
is_latest(e, id) ==
    CASE id.k = "hash" ->
           IF block_number(e) < 1 THEN "panic"
           ELSE LET last_hash == block_hash(e, block_number(e) - 1)
                IN  IF last_hash # DefaultHash /\ id.v = last_hash
                    THEN "local" ELSE "remote"
      [] id.k = "latest" -> "local"
      [] id.k = "num" ->
           IF block_number(e) < 1 THEN "panic"
           ELSE IF id.v = block_number(e) - 1 THEN "local" ELSE "remote"
      [] id.k = "pending" -> "local"
      [] OTHER -> "remote"

\* Whether is_latest reads the engine state (takes the read guard) for id.
ClassifierReads(id) == id.k \in {"hash", "num"}

\* Forge::to_addr, and the name resolution of apply_tx: a name goes to the
\* inner provider, an address is returned as it is.
to_addr(inn, dest) ==
    IF dest.k = "name"
    THEN Delegate(inn.mode, RemoteResolve(dest.a))
    ELSE [kind |-> "ok", val |-> Some(dest.a)]

\* A creation whose result is stored as the bytes variant.
CreateResAsBytes(addr) == [k |-> "CallRes", v |-> addr]

\* TxOutput: CallRes(Bytes) | CreateRes(Address)
CallRes(bytes) == [k |-> "CallRes", v |-> bytes]
CreateRes(addr) == [k |-> "CreateRes", v |-> addr]

\* maybe_addr that does not tell the variants apart.
maybe_addr_any(output) == Some(output.v)

\* TxOutput::maybe_addr
maybe_addr(output) == IF output.k = "CreateRes" THEN Some(output.v) ELSE None

\* TxOutput::maybe_bytes
maybe_bytes(output) == IF output.k = "CallRes" THEN Some(output.v) ELSE None

\* Forge::apply_tx on engine state v: the result (kind "ok" with a TxRes, "err"
\* or "panic"), the engine state after it, what it invoked, and the outcome
\* the engine reported ("Fatal" with an error, "none" when it was not asked).
apply_tx(v, inn, tx) ==
    LET from == IF IsSome(tx.from) THEN Unwrap(tx.from) ELSE DEFAULT_SENDER
        val  == IF IsSome(tx.value) THEN Unwrap(tx.value) ELSE 0
        data == tx.data
    IN  IF IsSome(tx.to)
        THEN LET to == to_addr(inn, Unwrap(tx.to))
             IN  IF to.kind # "ok"
                 THEN [kind |-> to.kind, val |-> to.val, vm |-> v,
                       dg |-> TRUE, ncall |-> 0, ndeploy |-> 0, exit |-> "none"]
                 ELSE LET r == call_raw(v, from, Unwrap(to.val), data, val)
                      IN  IF r.err
                          THEN [kind |-> "err", val |-> Some("EvmError"), vm |-> r.vm,
                                dg |-> Unwrap(tx.to).k = "name",
                                ncall |-> 1, ndeploy |-> 0, exit |-> r.exit]
                          ELSE [kind |-> "ok",
                                val |-> Some([output |-> CallRes(Unwrap(r.out)),
                                              exit |-> r.exit, gas |-> r.gas]),
                                vm |-> r.vm,
                                dg |-> Unwrap(tx.to).k = "name",
                                ncall |-> 1, ndeploy |-> 0, exit |-> r.exit]
        ELSE LET r == deploy(v, from, data, val)
             IN  IF r.err
                 THEN [kind |-> "err", val |-> Some("EvmError"), vm |-> r.vm,
                       dg |-> FALSE, ncall |-> 0, ndeploy |-> 1, exit |-> r.exit]
                 ELSE [kind |-> "ok",
                       val |-> Some([output |-> CreateRes(Unwrap(r.out)),
                                     exit |-> r.exit, gas |-> r.gas]),
                       vm |-> r.vm,
                       dg |-> FALSE, ncall |-> 0, ndeploy |-> 1, exit |-> r.exit]

\* Whether apply_tx reaches the engine (takes the write guard): not when the
\* resolution of the destination name fails first.
ApplyReachesEngine(inn, tx) ==
    IsSome(tx.to) => to_addr(inn, Unwrap(tx.to)).kind = "ok"

\* ------------------------------------------------------ middleware.rs
\* TypedTransaction::access_list: a legacy transaction has none.
access_list(tx) == IF tx.ty = "Legacy" THEN None ELSE Some(tx.al)

\* fill_transaction up to the gas estimate: the default sender, the name of
\* the destination, and `gas` (the transaction's own, or estimate_gas, which
\* is the engine's block gas limit).
FillGas(e, inn, tx) ==
    LET tx1 == IF IsSome(default_sender(inn)) /\ ~IsSome(tx.from)
               THEN [tx EXCEPT !.from = default_sender(inn)] ELSE tx
        named == IsSome(tx1.to) /\ Unwrap(tx1.to).k = "name"
        addr == IF named THEN to_addr(inn, Unwrap(tx1.to))
                ELSE [kind |-> "ok", val |-> None]
        tx2 == IF named /\ addr.kind = "ok"
               THEN [tx1 EXCEPT !.to = Some(AddrDest(Unwrap(addr.val)))] ELSE tx1
    IN  IF addr.kind # "ok"
        THEN [kind |-> addr.kind, val |-> addr.val, tx |-> tx1, gas |-> 0,
              dg |-> TRUE, rd |-> FALSE]
        ELSE [kind |-> "ok", val |-> None, tx |-> tx2,
              gas |-> IF IsSome(tx2.gas) THEN Unwrap(tx2.gas) ELSE gas_limit(e),
              dg |-> named, rd |-> ~IsSome(tx2.gas)]

\* Whether the gas step reads the engine state (estimate_gas).
FillGasReads(inn, tx) ==
    /\ ~IsSome(tx.gas)
    /\ (IsSome(tx.to) /\ Unwrap(tx.to).k = "name") => to_addr(inn, Unwrap(tx.to)).kind = "ok"

\* An access-list step that adopts the list on equal gas as well.
FillAccessListLoose(inn, tx, gas) ==
    IF IsSome(access_list(tx)) /\ Unwrap(access_list(tx)) = "empty"
    THEN LET r == Delegate(inn.mode, RemoteAccessList)
         IN  IF r.kind = "panic"
             THEN [kind |-> "panic", tx |-> tx, dg |-> TRUE]
             ELSE IF r.kind = "ok" /\ Unwrap(r.val).gas_used <= gas
             THEN [kind |-> "ok",
                   tx |-> [tx EXCEPT !.al = Unwrap(r.val).list,
                                     !.gas = Some(Unwrap(r.val).gas_used)],
                   dg |-> TRUE]
             ELSE [kind |-> "ok", tx |-> [tx EXCEPT !.gas = Some(gas)], dg |-> TRUE]
    ELSE [kind |-> "ok", tx |-> [tx EXCEPT !.gas = Some(gas)], dg |-> FALSE]

\* The access-list step of fill_transaction, with `gas` from the gas step.
FillAccessList(inn, tx, gas) ==
    IF IsSome(access_list(tx)) /\ Unwrap(access_list(tx)) = "empty"
    THEN LET r == Delegate(inn.mode, RemoteAccessList)
         IN  IF r.kind = "panic"
             THEN [kind |-> "panic", tx |-> tx, dg |-> TRUE]
             ELSE IF r.kind = "ok" /\ Unwrap(r.val).gas_used < gas
             THEN [kind |-> "ok",
                   tx |-> [tx EXCEPT !.al = Unwrap(r.val).list,
                                     !.gas = Some(Unwrap(r.val).gas_used)],
                   dg |-> TRUE]
             ELSE [kind |-> "ok", tx |-> [tx EXCEPT !.gas = Some(gas)], dg |-> TRUE]
    ELSE [kind |-> "ok", tx |-> [tx EXCEPT !.gas = Some(gas)], dg |-> FALSE]

\* The fee step as Provider::fill_transaction has it: the gas price comes from
\* the inner provider.
FillFeeFieldsRemotePrice(e, inn, tx) ==
    LET r == Delegate(inn.mode, RemoteGasPrice)
    IN  IF tx.ty = "Eip1559" \/ IsSome(tx.gasPrice)
        THEN [kind |-> "ok", val |-> None, tx |-> tx, dg |-> FALSE, rd |-> FALSE,
              gp |-> 0, fee |-> 0]
        ELSE IF r.kind = "ok"
        THEN [kind |-> "ok", val |-> None, tx |-> [tx EXCEPT !.gasPrice = r.val],
              dg |-> TRUE, rd |-> FALSE, gp |-> 1, fee |-> 0]
        ELSE [kind |-> r.kind, val |-> r.val, tx |-> tx, dg |-> TRUE, rd |-> FALSE,
              gp |-> 1, fee |-> 0]

\* A fee step that estimates the fees of a fee-market transaction only when
\* both fields are unset.
FillFeeFieldsBothUnset(e, inn, tx) ==
    IF tx.ty \in {"Eip2930", "Legacy"}
    THEN [kind |-> "ok", val |-> None,
          tx |-> [tx EXCEPT !.gasPrice =
                     IF IsSome(tx.gasPrice) THEN tx.gasPrice ELSE Some(gas_price(e))],
          dg |-> FALSE, rd |-> ~IsSome(tx.gasPrice),
          gp |-> IF IsSome(tx.gasPrice) THEN 0 ELSE 1, fee |-> 0]
    ELSE IF ~IsSome(tx.maxFee) /\ ~IsSome(tx.maxPrio)
    THEN LET r == Delegate(inn.mode, RemoteFees)
         IN  IF r.kind = "ok"
             THEN [kind |-> "ok", val |-> None,
                   tx |-> [tx EXCEPT !.maxFee = Some(Unwrap(r.val)[1]),
                                     !.maxPrio = Some(Unwrap(r.val)[2])],
                   dg |-> TRUE, rd |-> FALSE, gp |-> 0, fee |-> 1]
             ELSE [kind |-> r.kind, val |-> r.val, tx |-> tx, dg |-> TRUE, rd |-> FALSE,
                   gp |-> 0, fee |-> 1]
    ELSE [kind |-> "ok", val |-> None, tx |-> tx, dg |-> FALSE, rd |-> FALSE,
          gp |-> 0, fee |-> 0]

\* The fee step of fill_transaction.  gp and fee count the gas-price queries
\* and the fee estimations it makes.
FillFeeFields(e, inn, tx) ==
    IF tx.ty \in {"Eip2930", "Legacy"}
    THEN [kind |-> "ok", val |-> None,
          tx |-> [tx EXCEPT !.gasPrice =
                     IF IsSome(tx.gasPrice) THEN tx.gasPrice ELSE Some(gas_price(e))],
          dg |-> FALSE, rd |-> ~IsSome(tx.gasPrice),
          gp |-> IF IsSome(tx.gasPrice) THEN 0 ELSE 1, fee |-> 0]
    ELSE IF ~IsSome(tx.maxFee) \/ ~IsSome(tx.maxPrio)
    THEN LET r == Delegate(inn.mode, RemoteFees)
         IN  IF r.kind = "ok"
             THEN [kind |-> "ok", val |-> None,
                   tx |-> [tx EXCEPT !.maxFee = Some(Unwrap(r.val)[1]),
                                     !.maxPrio = Some(Unwrap(r.val)[2])],
                   dg |-> TRUE, rd |-> FALSE, gp |-> 0, fee |-> 1]
             ELSE [kind |-> r.kind, val |-> r.val, tx |-> tx, dg |-> TRUE, rd |-> FALSE,
                   gp |-> 0, fee |-> 1]
    ELSE [kind |-> "ok", val |-> None, tx |-> tx, dg |-> FALSE, rd |-> FALSE,
          gp |-> 0, fee |-> 0]

\* fill_transaction from the access-list step to its end.
FillFee(e, inn, tx, gas) ==
    LET a == FillAccessList(inn, tx, gas)
    IN  IF a.kind # "ok"
        THEN [kind |-> a.kind, val |-> None, tx |-> a.tx, dg |-> a.dg, rd |-> FALSE,
              gp |-> 0, fee |-> 0]
        ELSE LET f == FillFeeFields(e, inn, a.tx)
             IN  [f EXCEPT !.dg = a.dg \/ f.dg]

\* Whether the fee step reads the engine state (get_gas_price).
FillFeeReads(inn, tx, gas) ==
    /\ FillAccessList(inn, tx, gas).kind = "ok"
    /\ tx.ty \in {"Eip2930", "Legacy"}
    /\ ~IsSome(tx.gasPrice)

\* A receipt whose status does not look at the engine's outcome.
ReceiptStatusOne(res, tx) ==
    [gas_used |-> Some(res.gas),
     status |-> Some(1),
     contract_address |-> maybe_addr(res.output),
     transaction_hash |-> <<"sighash", tx>>]

\* The receipt send_transaction builds from the result of apply_tx.
Receipt(res, tx) ==
    [gas_used |-> Some(res.gas),
     status |-> Some(IF is_success(res.exit) THEN 1 ELSE 0),
     contract_address |-> maybe_addr(res.output),
     transaction_hash |-> <<"sighash", tx>>]

\* PendingTransaction::new alone: the state it starts in, without the receipt.
PendingHandleUnset(receipt) ==
    [state |-> "InitialDelay", receipt |-> None, confirmations |-> 1,
     polls |-> 0, queries |-> 0, output |-> None]

\* PendingTransaction::new followed by set_state(CheckingReceipt(Some(receipt))).
PendingHandle(receipt) ==
    [state |-> "CheckingReceipt", receipt |-> Some(receipt), confirmations |-> 1,
     polls |-> 0, queries |-> 0, output |-> None]

\* ------------------------------------------------------------- state
VARIABLES
    vm,      \* the engine state behind Arc<RwLock<E>>
    env,     \* the engine's block environment
    inner,   \* Forge::inner: the mode of the provider and its sender
    held,    \* held[p]: read guards p keeps across an await
    queue,   \* callers waiting for the lock, in order of arrival
    proc,    \* proc[p]: the request caller p is in, and its locals
    ops,     \* requests issued so far
    calls,   \* call requests among them
    ghost    \* the engine state the send_transaction requests alone produce

vars == <<vm, env, inner, held, queue, proc, ops, calls, ghost>>

NoTx == <<>>

NoEv == [rd |-> FALSE, wr |-> FALSE, dg |-> FALSE, cls |-> "none",
         applied |-> FALSE, ncall |-> 0, ndeploy |-> 0, exit |-> "none",
         gp |-> 0, fee |-> 0]

NoOut == [kind |-> "none", val |-> None]

\* A caller between requests, and the locals of a request as it starts.
IdleProc == [pc |-> "idle"]

NewProc ==
    [pc |-> "idle", op |-> "none", tx |-> NoTx, tx0 |-> NoTx, block |-> None,
     who |-> None, snap |-> None, gas |-> 0, tmp |-> None,
     out |-> NoOut, pre |-> None, ev |-> NoEv, prev |-> None, res |-> None]

\* ------------------------------------------------------------ requests
\* TypedTransaction, with the fields its variant has.
Tx(ty, from, to, value, data, gas, gasPrice, al, maxFee, maxPrio) ==
    CASE ty = "Legacy" ->
           [ty |-> ty, from |-> from, to |-> to, value |-> value, data |-> data,
            gas |-> gas, gasPrice |-> gasPrice]
      [] ty = "Eip2930" ->
           [ty |-> ty, from |-> from, to |-> to, value |-> value, data |-> data,
            gas |-> gas, gasPrice |-> gasPrice, al |-> al]
      [] OTHER ->
           [ty |-> ty, from |-> from, to |-> to, value |-> value, data |-> data,
            gas |-> gas, al |-> al, maxFee |-> maxFee, maxPrio |-> maxPrio]

Dests == {None, Some(AddrDest("D")), Some(NameDest("ens"))}

\* Transactions that differ in what apply_tx does with them.
ExecTxs ==
    {Tx("Legacy", f, t, v, d, Some(2), None, "empty", None, None) :
        f \in {None, Some("A")}, t \in Dests, v \in {None, Some(1)},
        d \in {"code", "fault"}}

\* Transactions that differ in what fill_transaction does with them.
LegacyTxs ==
    {Tx("Legacy", f, t, Some(1), "code", g, gp, "empty", None, None) :
        f \in {None, Some("A")}, t \in Dests \ {None},
        g \in {None, Some(2)}, gp \in {None, Some(5)}}

Eip2930Txs ==
    {Tx("Eip2930", Some("A"), Some(AddrDest("D")), Some(1), "code", g, gp, al, None, None) :
        g \in {None, Some(1), Some(2)}, gp \in {None, Some(5)},
        al \in {"empty", "given"}}

Eip1559Txs ==
    {Tx("Eip1559", Some("A"), Some(AddrDest("D")), Some(1), "code", g, None, al, mf, mp) :
        g \in {None, Some(1), Some(2)}, al \in {"empty", "given"},
        mf \in {None, Some(5)}, mp \in {None, Some(5)}}

FillTxs == LegacyTxs \cup Eip2930Txs \cup Eip1559Txs

\* Typed transactions that are sent.
TypedSendTxs ==
    {Tx(ty, Some("A"), None, None, "code", None, None, al, None, None) :
        ty \in {"Eip2930", "Eip1559"}, al \in {"empty", "given"}}

Transfer ==
    Tx("Legacy", Some("A"), Some(AddrDest("D")), Some(1), "code", Some(2), None,
       "empty", None, None)

TxBlocks == {None, Some([k |-> "num", v |-> 0])}

Req(op, tx, block, who) == [op |-> op, tx |-> tx, block |-> block, who |-> who]

Queries == {"get_gas_price", "get_block_number", "get_chainid", "estimate_gas"}

\* The requests of one caller at a time: every operation on every input.
SeqReqs ==
    {Req("get_balance", NoTx, b, w) :
        b \in {None} \cup {Some(i) : i \in BlockIds},
        w \in {AddrDest("A"), NameDest("ens")}}
      \cup {Req("get_block", NoTx, Some(i), None) : i \in BlockIds}
      \cup {Req(o, t, b, None) :
              o \in {"call", "send_transaction"}, t \in ExecTxs, b \in TxBlocks}
      \cup {Req("send_transaction", t, None, None) : t \in TypedSendTxs}
      \cup {Req("fill_transaction", t, b, None) : t \in FillTxs, b \in TxBlocks}
      \cup {Req(q, NoTx, None, None) : q \in Queries}

\* The requests of concurrent callers.
ConcReqs ==
    {Req("get_balance", NoTx, b, AddrDest("A")) :
        b \in {None, Some([k |-> "num", v |-> 0])}}
      \cup {Req("get_block", NoTx, Some([k |-> "latest", v |-> 0]), None)}
      \cup {Req("call", Transfer, None, None)}
      \cup {Req("send_transaction", Transfer, None, None)}
      \cup {Req("fill_transaction", [Transfer EXCEPT !.gas = None], None, None)}
      \cup {Req("get_gas_price", NoTx, None, None)}

\* ------------------------------------------------------------- the lock
\* tokio's RwLock is fair: a caller is served when it is first in line (or
\* nobody waits) and the guards held allow its mode.  A write guard is never
\* held across a step, so only read guards are recorded.
Granted(p, mode) ==
    /\ IF queue = <<>> THEN TRUE ELSE Head(queue) = p
    /\ IF mode = "w" THEN \A q \in Procs : held[q] = 0 ELSE TRUE

Waiting(p) == \E i \in 1..Len(queue) : queue[i] = p

Served(p) == IF queue # <<>> /\ Head(queue) = p THEN Tail(queue) ELSE queue

\* The guard the next step of p asks for: Forge::vm ("r"), Forge::vm_mut ("w"),
\* or "none".
LockMode(p) ==
    LET c == proc[p]
    IN  CASE c.pc \in {"bal_classify", "blk_classify"} ->
               IF IsSome(c.block) /\ ClassifierReads(Unwrap(c.block)) THEN "r" ELSE "none"
          [] c.pc = "bal_read" ->
               IF to_addr(inner, c.who).kind = "ok" THEN "r" ELSE "none"
          [] c.pc \in {"blk_local", "blk_parent", "call_snap", "query"} -> "r"
          [] c.pc \in {"call_apply", "send_apply"} ->
               IF ApplyReachesEngine(inner, c.tx) THEN "w" ELSE "none"
          [] c.pc = "call_reset" -> "w"
          [] c.pc = "fill_gas" ->
               IF FillGasReads(inner, c.tx) THEN "r" ELSE "none"
          [] c.pc = "fill_fee" ->
               IF FillFeeReads(inner, c.tx, c.gas) THEN "r" ELSE "none"
          [] OTHER -> "none"

\* The step of p may run now; when it took the lock it leaves the line.
Acquire(p) ==
    /\ IF LockMode(p) = "none" THEN TRUE ELSE Granted(p, LockMode(p))
    /\ queue' = Served(p)

\* p finds the lock taken, or others in line before it, and waits.
LockWait(p) ==
    /\ LockMode(p) # "none"
    /\ ~Waiting(p)
    /\ ~Granted(p, LockMode(p))
    /\ queue' = Append(queue, p)
    /\ UNCHANGED <<vm, env, inner, held, proc, ops, calls, ghost>>

\* ------------------------------------------------------------ requests
\* The locals of a request are dropped when it returns.
Done(c, kind, val) ==
    [c EXCEPT !.pc = "done", !.out = [kind |-> kind, val |-> val],
              !.snap = None, !.gas = 0, !.tmp = None]

\* Caller p issues request r.  pre is the engine state the request starts from.
Begin(p, r, pc) ==
    /\ proc[p].pc = "idle"
    /\ ops < MaxOps
    /\ ops' = ops + 1
    /\ calls' = IF r.op = "call" THEN calls + 1 ELSE calls
    /\ proc' = [proc EXCEPT ![p] =
                  [NewProc EXCEPT
                     !.pc = pc, !.op = r.op, !.tx = r.tx, !.tx0 = r.tx,
                     !.block = r.block, !.who = r.who, !.pre = Some(vm)]]
    /\ UNCHANGED <<vm, env, inner, held, queue, ghost>>

\* The caller is done with the result of its request.
drop_result(p) ==
    /\ proc[p].pc = "done"
    /\ proc' = [proc EXCEPT ![p] = IdleProc]
    /\ UNCHANGED <<vm, env, inner, held, queue, ops, calls, ghost>>

\* The caller repeats a call that returned bytes, with the same input, right
\* after it; prev is what the first one returned.
call_again(p) ==
    LET c == proc[p]
    IN  /\ c.pc = "done" /\ c.op = "call" /\ c.out.kind = "ok"
        /\ ops < MaxOps
        /\ ops' = ops + 1
        /\ calls' = calls + 1
        /\ proc' = [proc EXCEPT ![p] =
                      [NewProc EXCEPT
                         !.pc = "call_snap", !.op = "call", !.tx = c.tx0, !.tx0 = c.tx0,
                         !.block = c.block, !.who = c.who, !.pre = Some(vm),
                         !.prev = Some(c.out)]]
        /\ UNCHANGED <<vm, env, inner, held, queue, ghost>>

get_balance(p, R) ==
    \E r \in R : r.op = "get_balance" /\ Begin(p, r, "bal_classify")

get_block(p, R) ==
    \E r \in R : r.op = "get_block" /\ Begin(p, r, "blk_classify")

call(p, R) ==
    \E r \in R : r.op = "call" /\ Begin(p, r, "call_snap")

send_transaction(p, R) ==
    \E r \in R : r.op = "send_transaction" /\ Begin(p, r, "fill_gas")

fill_transaction(p, R) ==
    \E r \in R : r.op = "fill_transaction" /\ Begin(p, r, "fill_gas")

query(p, R) ==
    \E r \in R : r.op \in Queries /\ Begin(p, r, "query")

\* ------------------------------------------------------ the handlers
\* The branch an optional block selects: `block.is_none() || is_latest(block)`.
Classify(e, block) == IF IsSome(block) THEN is_latest(e, Unwrap(block)) ELSE "local"

\* get_gas_price, get_block_number, get_chainid, estimate_gas: one read.
query_read(p) ==
    LET c == proc[p]
        val == CASE c.op = "get_gas_price" -> gas_price(env)
                 [] c.op = "get_block_number" -> block_number(env)
                 [] c.op = "get_chainid" -> chain_id(env)
                 [] OTHER -> gas_limit(env)
    IN  /\ c.pc = "query"
        /\ Acquire(p)
        /\ proc' = [proc EXCEPT ![p] =
                      Done([c EXCEPT !.ev.rd = TRUE], "ok", Some(val))]
        /\ UNCHANGED <<vm, env, inner, held, ops, calls, ghost>>

\* get_balance up to its branch: a remote block goes to the inner provider.
get_balance_classify(p) ==
    LET c == proc[p]
        cls == Classify(env, c.block)
        c1 == [c EXCEPT !.ev.cls = IF IsSome(c.block) THEN cls ELSE "none"]
        d == Delegate(inner.mode, RemoteBalance(c.who))
    IN  /\ c.pc = "bal_classify"
        /\ Acquire(p)
        /\ proc' = [proc EXCEPT ![p] =
                      CASE cls = "panic" -> Done(c1, "panic", None)
                        [] cls = "local" -> [c1 EXCEPT !.pc = "bal_read"]
                        [] OTHER -> Done([c1 EXCEPT !.ev.dg = TRUE], d.kind, d.val)]
        /\ UNCHANGED <<vm, env, inner, held, ops, calls, ghost>>

\* The local branch of get_balance: to_addr, then the balance of the engine.
get_balance_read(p) ==
    LET c == proc[p]
        a == to_addr(inner, c.who)
        c1 == [c EXCEPT !.ev.dg = c.who.k = "name"]
    IN  /\ c.pc = "bal_read"
        /\ Acquire(p)
        /\ proc' = [proc EXCEPT ![p] =
                      IF a.kind # "ok" THEN Done(c1, a.kind, a.val)
                      ELSE Done([c1 EXCEPT !.ev.rd = TRUE], "ok",
                                Some(balance(vm, Unwrap(a.val))))]
        /\ UNCHANGED <<vm, env, inner, held, ops, calls, ghost>>

\* get_block up to its branch.
get_block_classify(p) ==
    LET c == proc[p]
        cls == is_latest(env, Unwrap(c.block))
        c1 == [c EXCEPT !.ev.cls = cls]
        d == Delegate(inner.mode, RemoteBlock(Unwrap(c.block)))
    IN  /\ c.pc = "blk_classify"
        /\ Acquire(p)
        /\ proc' = [proc EXCEPT ![p] =
                      CASE cls = "panic" -> Done(c1, "panic", None)
                        [] cls = "local" -> [c1 EXCEPT !.pc = "blk_local"]
                        [] OTHER -> Done([c1 EXCEPT !.ev.dg = TRUE], d.kind, d.val)]
        /\ UNCHANGED <<vm, env, inner, held, ops, calls, ghost>>

\* The local branch of get_block: `vm` is a read guard kept until the block is
\* returned.  num = head - 1 and num - 1 are computed under it; either
\* subtraction panics on overflow, which drops the guard.
get_block_local(p) ==
    LET c == proc[p]
        c1 == [c EXCEPT !.ev.rd = TRUE]
        num == block_number(env) - 1
    IN  /\ c.pc = "blk_local"
        /\ Acquire(p)
        /\ IF block_number(env) < 1 \/ num < 1
           THEN /\ proc' = [proc EXCEPT ![p] = Done(c1, "panic", None)]
                /\ UNCHANGED held
           ELSE /\ proc' = [proc EXCEPT ![p] =
                              [c1 EXCEPT !.pc = "blk_parent",
                                         !.tmp = Some([number |-> Some(num),
                                                       hash |-> Some(block_hash(env, num)),
                                                       parent_hash |-> DefaultHash])]]
                /\ held' = [held EXCEPT ![p] = 1]
        /\ UNCHANGED <<vm, env, inner, ops, calls, ghost>>

\* get_block_hash(num - 1): a second read guard, asked for while `vm` is held.
get_block_parent(p) ==
    LET c == proc[p]
        block == Unwrap(c.tmp)
    IN  /\ c.pc = "blk_parent"
        /\ Acquire(p)
        /\ proc' = [proc EXCEPT ![p] =
                      Done(c, "ok",
                           Some([block EXCEPT !.parent_hash =
                                   block_hash(env, Unwrap(block.number) - 1)]))]
        /\ held' = [held EXCEPT ![p] = 0]
        /\ UNCHANGED <<vm, env, inner, ops, calls, ghost>>

\* call: `state` is a clone of the engine state.
call_snapshot(p) ==
    LET c == proc[p]
    IN  /\ c.pc = "call_snap"
        /\ Acquire(p)
        /\ proc' = [proc EXCEPT ![p] =
                      [c EXCEPT !.pc = "call_apply", !.snap = Some(vm), !.ev.rd = TRUE]]
        /\ UNCHANGED <<vm, env, inner, held, ops, calls, ghost>>

\* call: apply_tx, then the bytes to return: those of the call, or for a
\* creation get_code(addr), which Forge leaves to the inner provider.  `?`
\* returns at once on an error.
call_apply(p) ==
    LET c == proc[p]
        r == apply_tx(vm, inner, c.tx)
        c1 == [c EXCEPT !.ev.applied = TRUE,
                        !.ev.wr = r.ncall + r.ndeploy > 0, !.ev.dg = r.dg,
                        !.ev.ncall = r.ncall, !.ev.ndeploy = r.ndeploy,
                        !.ev.exit = r.exit,
                        !.res = IF r.kind = "ok" THEN r.val ELSE None]
        output == Unwrap(r.val).output
        code == Delegate(inner.mode, RemoteCode(output.v))
    IN  /\ c.pc = "call_apply"
        /\ Acquire(p)
        /\ vm' = r.vm
        /\ proc' = [proc EXCEPT ![p] =
                      IF r.kind # "ok" THEN Done(c1, r.kind, r.val)
                      ELSE IF output.k = "CallRes"
                      THEN [c1 EXCEPT !.pc = "call_reset", !.tmp = Some(output.v)]
                      ELSE IF code.kind # "ok"
                      THEN Done([c1 EXCEPT !.ev.dg = TRUE], code.kind, code.val)
                      ELSE [c1 EXCEPT !.pc = "call_reset", !.tmp = code.val,
                                      !.ev.dg = TRUE]]
        /\ UNCHANGED <<env, inner, held, ops, calls, ghost>>

\* call without the reset.
call_return_only(p) ==
    LET c == proc[p]
    IN  /\ c.pc = "call_reset"
        /\ Acquire(p)
        /\ proc' = [proc EXCEPT ![p] = Done(c, "ok", c.tmp)]
        /\ UNCHANGED <<vm, env, inner, held, ops, calls, ghost>>

\* call: reset(state), then Ok(bytes).
call_reset(p) ==
    LET c == proc[p]
    IN  /\ c.pc = "call_reset"
        /\ Acquire(p)
        /\ vm' = Unwrap(c.snap)
        /\ proc' = [proc EXCEPT ![p] = Done(c, "ok", c.tmp)]
        /\ UNCHANGED <<env, inner, held, ops, calls, ghost>>

\* fill_transaction: sender, destination name, gas.
fill_gas(p) ==
    LET c == proc[p]
        f == FillGas(env, inner, c.tx)
        c1 == [c EXCEPT !.tx = f.tx, !.ev.dg = f.dg, !.ev.rd = f.rd]
    IN  /\ c.pc = "fill_gas"
        /\ Acquire(p)
        /\ proc' = [proc EXCEPT ![p] =
                      IF f.kind # "ok" THEN Done(c1, f.kind, f.val)
                      ELSE [c1 EXCEPT !.pc = "fill_fee", !.gas = f.gas]]
        /\ UNCHANGED <<vm, env, inner, held, ops, calls, ghost>>

\* fill_transaction: access list, gas, fee fields.  send_transaction goes on
\* to apply_tx.
fill_fee(p) ==
    LET c == proc[p]
        f == FillFee(env, inner, c.tx, c.gas)
        c1 == [c EXCEPT !.tx = f.tx, !.ev.dg = c.ev.dg \/ f.dg,
                        !.ev.rd = c.ev.rd \/ f.rd,
                        !.ev.gp = f.gp, !.ev.fee = f.fee]
    IN  /\ c.pc = "fill_fee"
        /\ Acquire(p)
        /\ proc' = [proc EXCEPT ![p] =
                      IF f.kind # "ok" THEN Done(c1, f.kind, f.val)
                      ELSE IF c.op = "fill_transaction" THEN Done(c1, "ok", None)
                      ELSE [c1 EXCEPT !.pc = "send_apply", !.gas = 0]]
        /\ UNCHANGED <<vm, env, inner, held, ops, calls, ghost>>

\* send_transaction: apply_tx, the receipt, and the pending transaction that
\* holds it.
send_apply(p) ==
    LET c == proc[p]
        r == apply_tx(vm, inner, c.tx)
        c1 == [c EXCEPT !.ev.applied = TRUE,
                        !.ev.wr = r.ncall + r.ndeploy > 0, !.ev.dg = c.ev.dg \/ r.dg,
                        !.ev.ncall = r.ncall, !.ev.ndeploy = r.ndeploy,
                        !.ev.exit = r.exit,
                        !.res = IF r.kind = "ok" THEN r.val ELSE None]
    IN  /\ c.pc = "send_apply"
        /\ Acquire(p)
        /\ vm' = r.vm
        /\ ghost' = apply_tx(ghost, inner, c.tx).vm
        /\ proc' = [proc EXCEPT ![p] =
                      IF r.kind # "ok" THEN Done(c1, r.kind, r.val)
                      ELSE Done(c1, "ok",
                                Some(PendingHandle(Receipt(Unwrap(r.val), c.tx))))]
        /\ UNCHANGED <<env, inner, held, ops, calls>>

\* The caller awaits the pending transaction: one poll.  With a receipt in
\* CheckingReceipt and one confirmation asked for, the poll completes with
\* the receipt; any other state asks the provider.
poll_pending(p) ==
    LET c == proc[p]
        h == Unwrap(c.out.val)
    IN  /\ c.pc = "done" /\ c.op = "send_transaction" /\ c.out.kind = "ok"
        /\ h.state # "Completed" /\ h.polls < 2
        /\ proc' = [proc EXCEPT ![p].out.val =
             Some(IF h.state = "CheckingReceipt" /\ ~IsSome(h.receipt)
                  THEN [h EXCEPT !.state = "Completed", !.polls = h.polls + 1]
                  ELSE IF h.state = "CheckingReceipt" /\ h.confirmations <= 1
                  THEN [h EXCEPT !.state = "Completed", !.polls = h.polls + 1,
                                 !.output = h.receipt, !.receipt = None]
                  ELSE [h EXCEPT !.state = "AskingProvider", !.polls = h.polls + 1,
                                 !.queries = h.queries + 1])]
        /\ UNCHANGED <<vm, env, inner, held, queue, ops, calls, ghost>>

\* ------------------------------------------------------- specification
InitVm ==
    [bal |-> [a \in Addrs |-> IF a = "A" THEN InitBal ELSE 0],
     code |-> [a \in Addrs |-> ""],
     nonce |-> 0]

InitEnv ==
    [number : 0..MaxHead, hashed : BOOLEAN, gasPrice : {1}, gasLimit : {3},
     chainId : {99}]

InitInner ==
    {[mode |-> "Not", sender |-> None]}
      \cup [mode : {"Up"}, sender : {None, Some("A")}]
      \cup {[mode |-> "Down", sender |-> None]}

Init ==
    /\ vm = InitVm
    /\ env \in InitEnv
    /\ inner \in InitInner
    /\ held = [p \in Procs |-> 0]
    /\ queue = <<>>
    /\ proc = [p \in Procs |-> IdleProc]
    /\ ops = 0
    /\ calls = 0
    /\ ghost = vm

Step(p) ==
    \/ query_read(p)
    \/ get_balance_classify(p)
    \/ get_balance_read(p)
    \/ get_block_classify(p)
    \/ get_block_local(p)
    \/ get_block_parent(p)
    \/ call_snapshot(p)
    \/ call_apply(p)
    \/ call_reset(p)
    \/ fill_gas(p)
    \/ fill_fee(p)
    \/ send_apply(p)
    \/ poll_pending(p)
    \/ call_again(p)
    \/ drop_result(p)

Start(p, R) ==
    \/ get_balance(p, R)
    \/ get_block(p, R)
    \/ call(p, R)
    \/ send_transaction(p, R)
    \/ fill_transaction(p, R)
    \/ query(p, R)

\* Concurrent callers.
Next == \E p \in Procs : Start(p, ConcReqs) \/ Step(p) \/ LockWait(p)

Spec == Init /\ [][Next]_vars

\* One caller: no request runs concurrently with another.
SeqNext == Start(1, SeqReqs) \/ Step(1)

SeqSpec == Init /\ [][SeqNext]_vars

\* ------------------------------------------------------------- claims
Finished(c, op) == c.pc = "done" /\ c.op = op

Returned(c) == c.out.kind \in {"ok", "err"}

\* The receipt a pending transaction carries, before or after it resolved.
HandleReceipt(h) == IF IsSome(h.receipt) THEN Unwrap(h.receipt) ELSE Unwrap(h.output)

\* C1: with one caller, a call that returns bytes leaves the engine state as
\* it found it, and the same call made right after returns the same bytes
\* and leaves the state the same again.
C1_CallIdempotent ==
    \A p \in Procs :
        LET c == proc[p]
        IN  (Finished(c, "call") /\ c.out.kind = "ok") =>
              /\ vm = Unwrap(c.pre)
              /\ IsSome(c.prev) => c.out = Unwrap(c.prev)

\* A repeated call whose transaction changes a balance when it is executed.
C1_Witness ==
    \E p \in Procs :
        LET c == proc[p]
        IN  /\ Finished(c, "call") /\ c.out.kind = "ok" /\ IsSome(c.prev)
            /\ balance(apply_tx(Unwrap(c.pre), inner, c.tx0).vm, "A")
                 # balance(Unwrap(c.pre), "A")
            /\ balance(vm, "A") = balance(Unwrap(c.pre), "A")

\* C2: call leaves the engine state as it found it on every return path, the
\* paths that return an error included.
C2_CallRestoresOnEveryReturn ==
    \A p \in Procs :
        LET c == proc[p]
        IN  (Finished(c, "call") /\ Returned(c)) => vm = Unwrap(c.pre)

Quiescent == \A p \in Procs : proc[p].pc \in {"idle", "done"}

\* C3: whatever the interleaving of one call with send_transaction requests,
\* once all have returned the engine state is the one the send_transaction
\* requests alone produce.
C3_CallHasNoLastingEffect == (Quiescent /\ calls <= 1) => vm = ghost

\* The classification that the head counter and the hash of block head - 1
\* define.
RefersToHead(e, id) ==
    \/ id.k \in {"latest", "pending"}
    \/ id.k = "num" /\ id.v = block_number(e) - 1
    \/ /\ id.k = "hash"
       /\ id.v = block_hash(e, block_number(e) - 1)
       /\ id.v # DefaultHash

\* C4: is_latest answers local for "latest", "pending", the number head - 1
\* and the non-default hash of block head - 1, and remote for every other
\* identifier.
C4_ClassifierCorrect ==
    \A p \in Procs :
        LET c == proc[p]
        IN  (c.pc # "idle" /\ c.ev.cls # "none" /\ IsSome(c.block)) =>
              c.ev.cls = IF RefersToHead(env, Unwrap(c.block))
                         THEN "local" ELSE "remote"

BlockOps == {"get_balance", "get_block", "call", "send_transaction", "fill_transaction"}

\* C5: an operation given a block identifier consults the classifier, and for
\* an identifier that does not refer to the head it delegates and neither
\* reads nor executes on the engine state.  (Stated for a head counter above
\* zero, where the classifier answers.)
C5_ClassifierGuardsEveryOperation ==
    \A p \in Procs :
        LET c == proc[p]
        IN  (c.pc = "done" /\ c.op \in BlockOps /\ IsSome(c.block)
               /\ block_number(env) > 0) =>
              /\ c.ev.cls # "none"
              /\ ~RefersToHead(env, Unwrap(c.block)) =>
                    ~c.ev.rd /\ ~c.ev.wr /\ c.ev.dg

\* C6: fill_transaction gives a legacy transaction without a gas price the
\* engine's gas price when the block is the head, and the inner provider's
\* when the block is a historical one.
C6_GasPriceFollowsBlock ==
    \A p \in Procs :
        LET c == proc[p]
        IN  (/\ Finished(c, "fill_transaction") /\ c.out.kind = "ok"
             /\ c.tx0.ty = "Legacy" /\ ~IsSome(c.tx0.gasPrice)
             /\ block_number(env) > 0) =>
              c.tx.gasPrice =
                 IF IsSome(c.block) /\ ~RefersToHead(env, Unwrap(c.block))
                 THEN Some(RemoteGasPrice) ELSE Some(gas_price(env))

\* C7: with the dummy provider, a request that reaches a delegation ends in
\* the panic of that delegation: it returns neither a value nor an error.
C7_DisabledProviderFailsLoudly ==
    inner.mode = "Not" =>
      \A p \in Procs : (proc[p].pc = "done" /\ proc[p].ev.dg) => proc[p].out.kind = "panic"

\* get_block of a remote block with the dummy provider.
C7_Witness ==
    /\ inner.mode = "Not"
    /\ \E p \in Procs :
         /\ Finished(proc[p], "get_block") /\ proc[p].ev.dg
         /\ proc[p].ev.cls = "remote" /\ proc[p].out.kind = "panic"

\* The request of the repository's test: a legacy transaction with sender,
\* destination address, value and gas, sent through a Forge built by new.
LocalLegacySend(c) ==
    /\ Finished(c, "send_transaction")
    /\ inner.mode = "Not"
    /\ c.tx0.ty = "Legacy"
    /\ IsSome(c.tx0.from)
    /\ IsSome(c.tx0.to) /\ Unwrap(c.tx0.to).k = "addr"
    /\ IsSome(c.tx0.value)
    /\ IsSome(c.tx0.gas)

\* C8 as stated: such a request reaches no delegation, runs the engine's call
\* once, and returns a handle whose receipt has no contract address.
C8_LocalSendReturnsHandle ==
    \A p \in Procs :
        LET c == proc[p]
        IN  LocalLegacySend(c) =>
              /\ ~c.ev.dg /\ c.ev.ncall = 1 /\ c.ev.ndeploy = 0
              /\ c.out.kind = "ok"
              /\ ~IsSome(HandleReceipt(Unwrap(c.out.val)).contract_address)

\* C8 amended: such a request reaches no delegation and runs the engine's
\* call once; it returns a handle whose receipt has no contract address,
\* unless the engine's call itself returned an error, which is then what
\* send_transaction returns.
C8_LocalSendStaysLocal ==
    \A p \in Procs :
        LET c == proc[p]
        IN  LocalLegacySend(c) =>
              /\ ~c.ev.dg /\ c.ev.ncall = 1 /\ c.ev.ndeploy = 0
              /\ IF c.out.kind = "ok"
                 THEN ~IsSome(HandleReceipt(Unwrap(c.out.val)).contract_address)
                 ELSE /\ c.out.kind = "err"
                      /\ c.out.val = Some("EvmError")
                      /\ call_raw(Unwrap(c.pre), Unwrap(c.tx0.from), Unwrap(c.tx0.to).a,
                                  c.tx0.data, Unwrap(c.tx0.value)).err

\* The test's request, returned with a receipt of status 1.
C8_Witness ==
    \E p \in Procs :
        LET c == proc[p]
        IN  /\ LocalLegacySend(c) /\ c.out.kind = "ok"
            /\ HandleReceipt(Unwrap(c.out.val)).status = Some(1)
            /\ ~IsSome(HandleReceipt(Unwrap(c.out.val)).contract_address)

\* C9: the handle send_transaction returns holds the receipt in
\* CheckingReceipt with one confirmation asked for, and the first poll
\* completes it with that receipt, the provider not having been asked.
C9_HandleResolvesAtFirstPoll ==
    \A p \in Procs :
        LET c == proc[p]
            h == Unwrap(c.out.val)
            made == Receipt(Unwrap(c.res), c.tx)
        IN  (Finished(c, "send_transaction") /\ c.out.kind = "ok") =>
              IF h.polls = 0
              THEN /\ h.state = "CheckingReceipt" /\ h.receipt = Some(made)
                   /\ h.confirmations = 1 /\ h.queries = 0
              ELSE /\ h.polls = 1 /\ h.state = "Completed"
                   /\ h.output = Some(made) /\ h.queries = 0

\* A handle that was polled once and gave its receipt.
C9_Witness ==
    \E p \in Procs :
        LET c == proc[p]
        IN  /\ Finished(c, "send_transaction") /\ c.out.kind = "ok"
            /\ Unwrap(c.out.val).polls = 1
            /\ Unwrap(c.out.val).state = "Completed"
            /\ IsSome(Unwrap(c.out.val).output)

\* C10: the receipt has status 1 exactly when the engine's outcome is a
\* success and 0 otherwise, the gas the engine reported, and a contract
\* address exactly when the filled request has no destination.
C10_ReceiptMatchesExecution ==
    \A p \in Procs :
        LET c == proc[p]
            r == HandleReceipt(Unwrap(c.out.val))
            res == Unwrap(c.res)
        IN  (Finished(c, "send_transaction") /\ c.out.kind = "ok") =>
              /\ r.status = IF res.exit = "Succeed" THEN Some(1) ELSE Some(0)
              /\ r.gas_used = Some(res.gas)
              /\ IsSome(r.contract_address) <=> ~IsSome(c.tx.to)

\* A deployment that was sent and succeeded.
C10_Witness ==
    \E p \in Procs :
        LET c == proc[p]
            r == HandleReceipt(Unwrap(c.out.val))
        IN  /\ Finished(c, "send_transaction") /\ c.out.kind = "ok"
            /\ ~IsSome(c.tx.to)
            /\ r.status = Some(1) /\ IsSome(r.contract_address)

\* A call or send_transaction that has returned and got as far as apply_tx.
Executed(c) ==
    c.pc = "done" /\ c.op \in {"call", "send_transaction"} /\ c.ev.applied

Resolvable(inn, tx) == IsSome(tx.to) /\ to_addr(inn, Unwrap(tx.to)).kind = "ok"

\* C11 as stated: apply_tx invokes exactly one engine capability; without a
\* destination it is deploy and the result is a CreateRes holding an address,
\* with a resolvable destination it is the call and the result is a CallRes.
C11_PathFollowsDestination ==
    \A p \in Procs :
        LET c == proc[p]
        IN  Executed(c) =>
              /\ c.ev.ncall + c.ev.ndeploy = 1
              /\ IF ~IsSome(c.tx.to)
                 THEN /\ c.ev.ndeploy = 1
                      /\ IF IsSome(c.res)
                         THEN /\ Unwrap(c.res).output.k = "CreateRes"
                              /\ Unwrap(c.res).output.v \in Addrs
                         ELSE FALSE
                 ELSE IF Resolvable(inner, c.tx)
                 THEN /\ c.ev.ncall = 1
                      /\ IF IsSome(c.res)
                         THEN Unwrap(c.res).output.k = "CallRes" ELSE FALSE
                 ELSE TRUE

\* C11 amended: the destination selects the path, and the engine capability of
\* that path is the only one invoked, once; a result, when there is one, is of
\* the variant of the path.  There is no result when the engine returns an
\* error, which apply_tx returns as EvmError, and no capability is invoked
\* when the destination does not resolve.
C11_PathFollowsDestinationOrError ==
    \A p \in Procs :
        LET c == proc[p]
        IN  Executed(c) =>
              IF ~IsSome(c.tx.to)
              THEN /\ c.ev.ndeploy = 1 /\ c.ev.ncall = 0
                   /\ IF IsSome(c.res)
                      THEN /\ Unwrap(c.res).output.k = "CreateRes"
                           /\ Unwrap(c.res).output.v \in Addrs
                      ELSE c.out = [kind |-> "err", val |-> Some("EvmError")]
              ELSE IF Resolvable(inner, c.tx)
              THEN /\ c.ev.ncall = 1 /\ c.ev.ndeploy = 0
                   /\ IF IsSome(c.res)
                      THEN Unwrap(c.res).output.k = "CallRes"
                      ELSE c.out = [kind |-> "err", val |-> Some("EvmError")]
              ELSE /\ c.ev.ncall = 0 /\ c.ev.ndeploy = 0
                   /\ ~IsSome(c.res)
                   /\ c.out.kind \in {"err", "panic"}

\* A request without destination that was executed and gave an address.
C11_Witness ==
    \E p \in Procs :
        LET c == proc[p]
        IN  /\ Executed(c) /\ ~IsSome(c.tx.to) /\ IsSome(c.res)
            /\ c.ev.ndeploy = 1 /\ c.ev.ncall = 0
            /\ Unwrap(c.res).output = CreateRes("C")

\* The gas determined in the gas step for a request whose destination is an
\* address: its own gas, or the estimate.
PlainGas(e, tx) == IF IsSome(tx.gas) THEN Unwrap(tx.gas) ELSE gas_limit(e)

\* A returned fill of a transaction with an empty access list, the access-list
\* estimation having answered.
FilledWithEstimate(c) ==
    /\ c.pc = "done" /\ c.op \in {"fill_transaction", "send_transaction"}
    /\ inner.mode = "Up"
    /\ c.tx0.ty \in {"Eip2930", "Eip1559"}
    /\ c.tx0.al = "empty"

\* C12: the transaction ends with the estimated list and its gas exactly when
\* that gas is below the gas of the gas step, and otherwise with an empty
\* list and the gas of the gas step.
C12_AccessListAdoption ==
    \A p \in Procs :
        LET c == proc[p]
            G == PlainGas(env, c.tx0)
        IN  FilledWithEstimate(c) =>
              IF RemoteAccessList.gas_used < G
              THEN /\ c.tx.al = RemoteAccessList.list
                   /\ c.tx.gas = Some(RemoteAccessList.gas_used)
              ELSE /\ c.tx.al = "empty"
                   /\ c.tx.gas = Some(G)

\* The tie: the estimate with the list equals the gas of the gas step, and the
\* list is not adopted.
C12_Witness ==
    \E p \in Procs :
        LET c == proc[p]
        IN  /\ FilledWithEstimate(c) /\ c.ev.dg
            /\ PlainGas(env, c.tx0) = RemoteAccessList.gas_used
            /\ c.tx.al = "empty" /\ c.tx.gas = c.tx0.gas

\* C13: with a provider that fails every request, a fill_transaction or
\* send_transaction that made a request to it returns an error.
C13_NoSilentRecovery ==
    inner.mode = "Down" =>
      \A p \in Procs :
          LET c == proc[p]
          IN  (/\ c.pc = "done"
               /\ c.op \in {"fill_transaction", "send_transaction"}
               /\ c.ev.dg) => c.out.kind = "err"

C15_CallReturnsDeployedCode ==
    \A p \in Procs :
        LET c == proc[p]
            after == apply_tx(Unwrap(c.pre), inner, c.tx).vm
        IN  (Finished(c, "call") /\ c.ev.applied /\ IsSome(c.res)) =>
              IF ~IsSome(c.tx.to)
              THEN c.out = [kind |-> "ok",
                            val |-> Some(after.code[Unwrap(c.res).output.v])]
              ELSE c.out = [kind |-> "ok", val |-> Some(Unwrap(c.res).output.v)]

\* C16: get_chainid returns the engine's chain id, get_block_number its head
\* counter and get_gas_price its gas price.
C16_AccessorsReadOwnField ==
    \A p \in Procs :
        LET c == proc[p]
        IN  (c.pc = "done" /\ c.op \in {"get_chainid", "get_block_number", "get_gas_price"}) =>
              c.out = [kind |-> "ok",
                       val |-> Some(CASE c.op = "get_chainid" -> env.chainId
                                      [] c.op = "get_block_number" -> env.number
                                      [] OTHER -> env.gasPrice)]

\* q is in line for the lock before p.
Before(q, p) ==
    \E i, j \in 1..Len(queue) : i < j /\ queue[i] = q /\ queue[j] = p

\* C17: no caller asks for a guard while it holds one, so no caller that
\* holds a read guard waits in line behind a writer, which waits for that
\* guard to be dropped.
C17_NoReentrantAcquisition ==
    \A p, q \in Procs :
        ~(/\ held[p] > 0 /\ Waiting(p)
          /\ Before(q, p) /\ LockMode(q) = "w")

\* C18: the fee step leaves a gas price the caller set and otherwise writes
\* the queried one; for a fee-market transaction with both fee fields set it
\* changes neither and estimates nothing, and otherwise it writes both from
\* one estimation.
C18_FeeStepFrame ==
    \A p \in Procs :
        LET c == proc[p]
        IN  Finished(c, "fill_transaction") =>
              IF c.tx0.ty \in {"Legacy", "Eip2930"}
              THEN /\ c.ev.fee = 0
                   /\ IF IsSome(c.tx0.gasPrice)
                      THEN c.tx.gasPrice = c.tx0.gasPrice /\ c.ev.gp = 0
                      ELSE c.out.kind = "ok" =>
                              c.tx.gasPrice = Some(gas_price(env)) /\ c.ev.gp = 1
              ELSE /\ c.ev.gp = 0
                   /\ IF IsSome(c.tx0.maxFee) /\ IsSome(c.tx0.maxPrio)
                      THEN /\ c.tx.maxFee = c.tx0.maxFee
                           /\ c.tx.maxPrio = c.tx0.maxPrio
                           /\ c.ev.fee = 0
                      ELSE c.out.kind = "ok" =>
                              /\ c.tx.maxFee = Some(RemoteFees[1])
                              /\ c.tx.maxPrio = Some(RemoteFees[2])
                              /\ c.ev.fee = 1

\* A fee-market transaction with only the max fee set: both fields are
\* written from one estimation.
C18_Witness ==
    \E p \in Procs :
        LET c == proc[p]
        IN  /\ Finished(c, "fill_transaction") /\ c.out.kind = "ok"
            /\ c.tx0.ty = "Eip1559"
            /\ IsSome(c.tx0.maxFee) /\ ~IsSome(c.tx0.maxPrio)
            /\ c.tx.maxFee = Some(RemoteFees[1]) /\ c.tx.maxFee # c.tx0.maxFee
            /\ c.tx.maxPrio = Some(RemoteFees[2])
            /\ c.ev.fee = 1

\* C19: as long as no send_transaction has changed the engine state, a
\* get_balance answered by the engine returns the balance of the state at
\* construction, whatever calls run beside it.
C19_CallIsInvisible ==
    ghost = InitVm =>
      \A p \in Procs :
          LET c == proc[p]
          IN  (Finished(c, "get_balance") /\ c.ev.rd /\ c.out.kind = "ok") =>
                c.out.val = Some(balance(InitVm, c.who.a))

\* C20: for every head counter, the classifier answers for a numeric or hash
\* identifier, and get_block on an identifier classified local returns the
\* block of number head - 1 with the engine's hashes of head - 1 and head - 2.
C20_NoUnderflow ==
    \A p \in Procs :
        LET c == proc[p]
        IN  (c.pc = "done" /\ c.op \in {"get_block", "get_balance"}
               /\ IsSome(c.block)) =>
              /\ c.ev.cls # "panic"
              /\ (c.op = "get_block" /\ c.ev.cls = "local") =>
                    c.out = [kind |-> "ok",
                             val |-> Some([number |-> Some(block_number(env) - 1),
                                           hash |-> Some(block_hash(env, block_number(env) - 1)),
                                           parent_hash |-> block_hash(env, block_number(env) - 2)])]

====
